---- MODULE Spec2Model ----
(***************************************************************************)
(* A model of matchcode_toolkit/fingerprinting.py:                         *)
(*   - select_windows, the hailstorm window selector (a generator),        *)
(*   - the fingerprint codec (_create_directory_fingerprint's encoding,    *)
(*     split_fingerprint, create_halohash_chunks),                         *)
(*   - the directory fingerprint engine (_compute_directory_fingerprints   *)
(*     and its two drivers) over a codebase tree.                          *)
(* Strings are sequences of one-character strings, byte strings are        *)
(* sequences of byte values, so that slicing, partition, lstrip, hex       *)
(* formatting and hex parsing are computed and not assumed.                *)
(***************************************************************************)
EXTENDS Integers, Sequences, FiniteSets, TLC

VARIABLES
    \* select_windows
    windows,    \* the input iterable, a sequence of windows
    pos,        \* number of windows consumed by the for loop
    last,       \* local `last`
    window,     \* local `window`
    out,        \* the windows yielded so far, in order
    outpos,     \* for each yielded window, its position in `windows`
    spc,        \* "loop" | "done"
    \* fingerprint codec
    inputs_count, \* _create_directory_fingerprint: the number of inputs hashed
    bah128,     \* _create_directory_fingerprint: the hex digest of the inputs
    fpstr,      \* the fingerprint _create_directory_fingerprint returned
    sarg,       \* the argument of the split_fingerprint call
    split_out,  \* what split_fingerprint returned or raised
    carg,       \* the argument of the create_halohash_chunks call
    chunks_out, \* what create_halohash_chunks returned or raised
    cpc,        \* "start" | "encoded" | "split" | "chunked"
    \* directory fingerprint engine
    codebase,   \* resource id -> [path, is_file, size, sha1]
    has_fields, \* the resources have the two dedicated fingerprint attributes
    entry,      \* the entry point called, and its `directory` argument
    todo,       \* the resources the driver's walk has yet to yield
    fields,     \* resource id -> the two dedicated attributes
    extra_data, \* resource id -> the two extra_data keys
    saved,      \* the resources save() was called on and returned, in order
    processed,  \* the resources passed to _compute_directory_fingerprints
    hashed,     \* resource id -> the feature lists its fingerprints were built from
    failed_at,  \* the resource whose processing raised, or 0
    dpc         \* "run" | "done" | "failed"

selVars == <<windows, pos, last, window, out, outpos, spc>>

codecVars == <<inputs_count, bah128, fpstr, sarg, split_out, carg, chunks_out, cpc>>

dirVars == <<codebase, has_fields, entry, todo, fields, extra_data, saved,
             processed, hashed, failed_at, dpc>>

vars == <<selVars, codecVars, dirVars>>

\* Python's None for the locals `last` and `window`; every window is a
\* non-empty sequence, so the empty tuple stands apart from all of them.
None == << >>

-----------------------------------------------------------------------------
(* Sequence helpers *)

RECURSIVE SeqsUpTo(_, _)
\* all sequences over S of length 0..n
SeqsUpTo(S, n) ==
    IF n = 0 THEN { << >> }
    ELSE LET shorter == SeqsUpTo(S, n - 1)
         IN shorter \cup { Append(s, x) : s \in { t \in shorter : Len(t) = n - 1 }, x \in S }

Range(s) == { s[i] : i \in DOMAIN s }

-----------------------------------------------------------------------------
(* binascii.crc32: the zlib CRC-32 (reflected polynomial 0xEDB88320, initial *)
(* value and final xor 0xFFFFFFFF). A 32-bit value is a pair <<hi, lo>> of   *)
(* 16-bit halves, so that no intermediate value leaves the 32-bit signed    *)
(* integers TLC computes with.                                               *)

RECURSIVE XorBits(_, _, _)
XorBits(a, b, n) ==
    IF n = 0 THEN 0
    ELSE (((a % 2) + (b % 2)) % 2) + 2 * XorBits(a \div 2, b \div 2, n - 1)

Xor16(a, b) == XorBits(a, b, 16)

Crc32Shift(c) ==
    LET sh == << c[1] \div 2, (c[2] \div 2) + ((c[1] % 2) * 32768) >>
    IN IF c[2] % 2 = 1
       THEN << Xor16(sh[1], 60856), Xor16(sh[2], 33568) >>   \* 0xEDB8 8320
       ELSE sh

RECURSIVE Crc32Shifts(_, _)
Crc32Shifts(c, n) == IF n = 0 THEN c ELSE Crc32Shifts(Crc32Shift(c), n - 1)

RECURSIVE Crc32Update(_, _)
Crc32Update(c, bytes) ==
    IF bytes = << >> THEN c
    ELSE Crc32Update(Crc32Shifts(<< c[1], Xor16(c[2], Head(bytes)) >>, 8), Tail(bytes))

\* binascii.crc32(ngram) & 0xffffffff
crc32(bytes) ==
    LET c == Crc32Update(<<65535, 65535>>, bytes)
    IN << Xor16(c[1], 65535), Xor16(c[2], 65535) >>

\* unsigned comparison of two 32-bit values
HashLeq(a, b) == a[1] < b[1] \/ (a[1] = b[1] /\ a[2] <= b[2])

-----------------------------------------------------------------------------
(* select_windows *)

\* The n-gram byte strings windows are made of: b"a b" and b"b a" (two
\* tokens joined by a space, as get_file_fingerprint_hashes builds them).
\* crc32(b"b a") = 0x1b23b330 < crc32(b"a b") = 0x806c5cd3.
Ngrams == { <<97, 32, 98>>, <<98, 32, 97>> }

\* the longest input sequence
MaxWindows == 3

\* the window lengths: one n-gram, then lengths with room for a minimum
\* strictly inside the window
WinLens == { 1, 2, 3, 4 }

RECURSIVE SeqsOfLen(_, _)
SeqsOfLen(S, n) ==
    IF n = 0 THEN { << >> }
    ELSE { Append(s, x) : s \in SeqsOfLen(S, n - 1), x \in S }

\* the windows of one input all have the same length, as ngrams(ngs, n) makes them
WindowsOfLen(n) == SeqsOfLen(Ngrams, n)

\* the hash of every n-gram, computed once
Crc32Of == [ ng \in Ngrams |-> crc32(ng) ]

\* nghs: the list of the window's n-gram hashes, in position order
Nghs(w) == [ i \in DOMAIN w |-> Crc32Of[w[i]] ]

\* min(nghs)
MinHash(nghs) ==
    CHOOSE m \in Range(nghs) : \A h \in Range(nghs) : HashLeq(m, h)

\* min_hash in (nghs[0], nghs[-1])
SelectedFirstOnly(w) ==
    LET nghs == Nghs(w) IN MinHash(nghs) = nghs[1]

Selected(w) ==
    LET nghs == Nghs(w)
    IN MinHash(nghs) \in { nghs[1], nghs[Len(nghs)] }

\* the loop body yields `window`: the rule holds, or it is the first window
YieldInLoop(p, w) == Selected(w) \/ p = 0

\* after the loop: `if last != window: yield window` (compared by value)
YieldAfterLoopNever(l, w) == FALSE

YieldAfterLoop(l, w) == l # w

\* one iteration of `for pos, window in enumerate(windows)`
SelectIter ==
    /\ spc = "loop"
    /\ pos < Len(windows)
    /\ LET w == windows[pos + 1]
       IN /\ window' = w
          /\ IF YieldInLoop(pos, w)
             THEN /\ out' = Append(out, w)
                  /\ outpos' = Append(outpos, pos + 1)
                  /\ last' = w
             ELSE UNCHANGED <<out, outpos, last>>
    /\ pos' = pos + 1
    /\ UNCHANGED <<windows, spc>>
    /\ UNCHANGED <<codecVars, dirVars>>

\* the iterable is exhausted: the statement after the loop, then return
SelectEnd ==
    /\ spc = "loop"
    /\ pos = Len(windows)
    /\ IF YieldAfterLoop(last, window)
       THEN /\ out' = Append(out, window)
            /\ outpos' = Append(outpos, pos)
       ELSE UNCHANGED <<out, outpos>>
    /\ spc' = "done"
    /\ UNCHANGED <<windows, pos, last, window>>
    /\ UNCHANGED <<codecVars, dirVars>>

-----------------------------------------------------------------------------
(* Fingerprint codec. A string is a sequence of one-character strings. *)

HexDigits == << "0", "1", "2", "3", "4", "5", "6", "7",
                "8", "9", "a", "b", "c", "d", "e", "f" >>

IsHexChar(c) == \E v \in DOMAIN HexDigits : HexDigits[v] = c

HexValue(c) == (CHOOSE v \in DOMAIN HexDigits : HexDigits[v] = c) - 1

\* Python's s[a:b] for 0 <= a <= b: the indexes past the end are dropped
Slice(s, a, b) ==
    LET hi == IF b < Len(s) THEN b ELSE Len(s)
    IN IF a >= hi THEN << >> ELSE SubSeq(s, a + 1, hi)

\* '%x' % n: the hex digits of n, no padding
RECURSIVE ToHex(_)
ToHex(n) ==
    IF n < 16 THEN << HexDigits[n + 1] >>
    ELSE Append(ToHex(n \div 16), HexDigits[(n % 16) + 1])

RECURSIVE ZeroPad(_, _)
ZeroPad(s, width) == IF Len(s) >= width THEN s ELSE ZeroPad(<<"0">> \o s, width)

\* the width of the count prefix, the 8 of '%08x' and of [0:8]
CountWidth == 8

\* '%08x' % inputs_count
FormatCountUnpadded(n) == ToHex(n)

FormatCount(n) == ZeroPad(ToHex(n), CountWidth)

\* _create_directory_fingerprint, from the count and the hex digest on:
\* directory_fingerprint = inputs_count_hex_str + bah128
CreateFingerprint(n, digest) == FormatCount(n) \o digest

\* the return value of a call, or the exception it raised
Returned(v) == [ raised |-> "none", value |-> v ]
Raised(e) == [ raised |-> e, value |-> << >> ]

\* int(s, 16) accepts s: over the characters of this model (lowercase hex
\* digits and the letter "g") that is a non-empty string of hex digits
IntAccepts(s) == s # << >> /\ \A i \in DOMAIN s : IsHexChar(s[i])

RECURSIVE ParseHex(_)
ParseHex(s) ==
    IF s = << >> THEN 0
    ELSE 16 * ParseHex(SubSeq(s, 1, Len(s) - 1)) + HexValue(s[Len(s)])

\* split_fingerprint
split_fingerprint(directory_fingerprint) ==
    LET indexed_elements_count_hash == Slice(directory_fingerprint, 0, CountWidth)
    IN IF IntAccepts(indexed_elements_count_hash)
       THEN Returned([ indexed_elements_count |-> ParseHex(indexed_elements_count_hash),
                       bah128 |-> Slice(directory_fingerprint, CountWidth,
                                        Len(directory_fingerprint)) ])
       ELSE Raised("ValueError")

\* binascii.unhexlify accepts an even number of hex digits
UnhexlifyAccepts(h) == Len(h) % 2 = 0 /\ \A i \in DOMAIN h : IsHexChar(h[i])

\* bytearray(binascii.unhexlify(hex_string)), when accepted
hexstring_to_binarray(hex_string) ==
    [ k \in 1..(Len(hex_string) \div 2) |->
        16 * HexValue(hex_string[2 * k - 1]) + HexValue(hex_string[2 * k]) ]

\* create_halohash_chunks
create_halohash_chunks(digest) ==
    LET chunks == << Slice(digest, 0, 8), Slice(digest, 8, 16),
                     Slice(digest, 16, 24), Slice(digest, 24, 32) >>
    IN IF \A k \in 1..4 : UnhexlifyAccepts(chunks[k])
       THEN Returned([ k \in 1..4 |-> hexstring_to_binarray(chunks[k]) ])
       ELSE Raised("binascii.Error")

\* the element counts a fingerprint is built with, up to 2^31 - 1, the
\* largest integer TLC computes with
Counts == { 0, 1, 2, 9, 10, 15, 16, 255, 4096, 65535, 1048576, 268435455, 2147483647 }

\* the 128-bit hex digests a fingerprint is built with
Digests == {
    [ i \in 1..32 |-> "0" ],
    [ i \in 1..32 |-> "f" ],
    [ i \in 1..32 |-> HexDigits[((i - 1) \div 2) + 1] ],      \* 00112233..ff
    [ i \in 1..32 |-> HexDigits[((7 * i + 3) % 16) + 1] ] }

\* the longest string a caller passes to split_fingerprint or
\* create_halohash_chunks
MaxStrLen == 41

\* the strings callers pass: a prefix of a hex string, with at most one
\* character replaced by the letter "g"; the first digit is at most 7
StringBases == { [ i \in 1..MaxStrLen |-> "0" ],
                 [ i \in 1..MaxStrLen |-> HexDigits[((7 * i) % 16) + 1] ] }

InputStrings ==
    LET prefixes == { SubSeq(b, 1, n) : b \in StringBases, n \in 0..MaxStrLen }
    IN prefixes \cup UNION { { [ s EXCEPT ![p] = "g" ] : p \in DOMAIN s } : s \in prefixes }

NoCall == [ raised |-> "not called", value |-> << >> ]

\* _create_directory_fingerprint builds a fingerprint from a count and a digest
CreateDirectoryFingerprint ==
    /\ cpc = "start"
    /\ \E n \in Counts, d \in Digests :
          /\ inputs_count' = n
          /\ bah128' = d
          /\ fpstr' = CreateFingerprint(n, d)
    /\ cpc' = "encoded"
    /\ UNCHANGED <<sarg, split_out, carg, chunks_out>>
    /\ UNCHANGED <<selVars, dirVars>>

\* split_fingerprint is called on the fingerprint just built
SplitCreated ==
    /\ cpc = "encoded"
    /\ sarg' = fpstr
    /\ split_out' = split_fingerprint(fpstr)
    /\ cpc' = "split"
    /\ UNCHANGED <<inputs_count, bah128, fpstr, carg, chunks_out>>
    /\ UNCHANGED <<selVars, dirVars>>

\* split_fingerprint is called on a string of the caller's
SplitGiven ==
    /\ cpc = "start"
    /\ \E s \in InputStrings :
          /\ sarg' = s
          /\ split_out' = split_fingerprint(s)
    /\ cpc' = "split"
    /\ UNCHANGED <<inputs_count, bah128, fpstr, carg, chunks_out>>
    /\ UNCHANGED <<selVars, dirVars>>

\* create_halohash_chunks is called on the digest split_fingerprint returned
ChunksOfSplit ==
    /\ cpc = "split"
    /\ split_out.raised = "none"
    /\ carg' = split_out.value.bah128
    /\ chunks_out' = create_halohash_chunks(split_out.value.bah128)
    /\ cpc' = "chunked"
    /\ UNCHANGED <<inputs_count, bah128, fpstr, sarg, split_out>>
    /\ UNCHANGED <<selVars, dirVars>>

\* create_halohash_chunks is called on a string of the caller's
ChunksGiven ==
    /\ cpc = "start"
    /\ \E s \in InputStrings :
          /\ carg' = s
          /\ chunks_out' = create_halohash_chunks(s)
    /\ cpc' = "chunked"
    /\ UNCHANGED <<inputs_count, bah128, fpstr, sarg, split_out>>
    /\ UNCHANGED <<selVars, dirVars>>

-----------------------------------------------------------------------------
(* The codebase tree. Directories: 1 is the root, 2 is a, 3 is a/b, 4 is c.  *)
(* Files are numbered after the directories; file i lies in FileParent[i].   *)

DirNames == << "r", "a", "b", "c" >>
DirParent == << 0, 1, 2, 1 >>

FileNames == << "f", "g", "h", "i", "j", "k", "l", "m" >>
FileParent == << 3, 3, 4, 4, 2, 1, 2, 1 >>

\* the number of files of the tree
MaxFiles == 4

NumDirs == Len(DirNames)
DirIds == 1..NumDirs
FileIds == (NumDirs + 1)..(NumDirs + MaxFiles)
ResourceIds == DirIds \cup FileIds

ParentOf(r) == IF r \in DirIds THEN DirParent[r] ELSE FileParent[r - NumDirs]
NameOf(r) == IF r \in DirIds THEN DirNames[r] ELSE FileNames[r - NumDirs]

\* what a file can be: empty with a sha1, small, or larger, with or without sha1
FileKinds == { [ size |-> 0, sha1 |-> << "e" >> ],
               [ size |-> 5, sha1 |-> << "a" >> ],
               [ size |-> 15, sha1 |-> << "b" >> ],
               [ size |-> 27, sha1 |-> << >> ] }

\* the root of a codebase has an empty path or a name
RootPaths == { << >>, << "r" >> }

RECURSIVE PathOf(_, _)
PathOf(r, root_path) ==
    IF ParentOf(r) = 0 THEN root_path
    ELSE LET pp == PathOf(ParentOf(r), root_path)
         IN IF pp = << >> THEN << NameOf(r) >> ELSE pp \o << "/", NameOf(r) >>

\* Resource.walk(codebase, topdown): the descendants of r, not r itself,
\* children in id order; children k..last of r
RECURSIVE WalkFrom(_, _, _)
WalkFrom(r, topdown, k) ==
    IF k > NumDirs + MaxFiles THEN << >>
    ELSE (IF ParentOf(k) = r
          THEN IF topdown THEN << k >> \o WalkFrom(k, topdown, 1)
                          ELSE WalkFrom(k, topdown, 1) \o << k >>
          ELSE << >>) \o WalkFrom(r, topdown, k + 1)

ResourceWalk(r, topdown) == WalkFrom(r, topdown, 1)

\* Codebase.walk(topdown): the root and its descendants
CodebaseWalk(topdown) ==
    IF topdown THEN << 1 >> \o ResourceWalk(1, topdown)
               ELSE ResourceWalk(1, topdown) \o << 1 >>

\* the walks, computed once
WalkTable == [ r \in ResourceIds |-> [ t \in BOOLEAN |-> ResourceWalk(r, t) ] ]

-----------------------------------------------------------------------------
(* The directory fingerprint engine *)

\* str(n) for n >= 0
DecDigits == << "0", "1", "2", "3", "4", "5", "6", "7", "8", "9" >>

RECURSIVE Str(_)
Str(n) ==
    IF n < 10 THEN << DecDigits[n + 1] >>
    ELSE Append(Str(n \div 10), DecDigits[(n % 10) + 1])

\* s.encode('utf-8') for the ASCII characters of this model
AsciiTable == << "/", "0", "1", "2", "3", "4", "5", "6", "7", "8", "9" >>

Utf8Byte(c) ==
    IF \E i \in DOMAIN AsciiTable : AsciiTable[i] = c
    THEN 46 + (CHOOSE i \in DOMAIN AsciiTable : AsciiTable[i] = c)
    ELSE LET letters == << "a", "b", "c", "d", "e", "f", "g", "h", "i", "j", "k",
                           "l", "m", "n", "o", "p", "q", "r" >>
         IN 96 + (CHOOSE i \in DOMAIN letters : letters[i] = c)

Utf8Encode(s) == [ i \in DOMAIN s |-> Utf8Byte(s[i]) ]

\* BitAverageHaloHash(inputs, size_in_bits=128).hexdigest(): a digest of 32 hex
\* digits that is a function of the inputs, all zeros for no input
BitAverageHaloHash128(inputs) ==
    LET sum(i) == LET col(k) == IF inputs[k] = << >> THEN 0
                                ELSE inputs[k][((i - 1) % Len(inputs[k])) + 1]
                      cols == [ k \in DOMAIN inputs |-> col(k) ]
                  IN IF inputs = << >> THEN 0
                     ELSE (cols[1] + cols[Len(cols)] + i * Len(inputs)) % 16
    IN [ i \in 1..32 |-> HexDigits[sum(i) + 1] ]

\* inputs = [i.encode('utf-8') for i in inputs if i]
EncodedInputs(inputs) ==
    LET nonempty == SelectSeq(inputs, LAMBDA i : i # << >>)
    IN [ k \in DOMAIN nonempty |-> Utf8Encode(nonempty[k]) ]

\* _create_directory_fingerprint
create_directory_fingerprint(inputs) ==
    LET encoded == EncodedInputs(inputs)
    IN CreateFingerprint(Len(encoded), BitAverageHaloHash128(encoded))

\* create_content_fingerprint: features = [r.sha1 for r in resources if r.sha1]
ContentFeatures(cb, resources) ==
    LET with_sha1 == SelectSeq(resources, LAMBDA r : cb[r].sha1 # << >>)
    IN [ k \in DOMAIN with_sha1 |-> cb[with_sha1[k]].sha1 ]

\* s.partition(sep)[2]: what follows the first occurrence of sep in s,
\* the empty string when there is none (sep is not empty)
PartitionAfter(s, sep) ==
    LET starts == { i \in 0..(Len(s) - Len(sep)) : SubSeq(s, i + 1, i + Len(sep)) = sep }
    IN IF starts = { } THEN << >>
       ELSE LET i == CHOOSE m \in starts : \A n \in starts : m <= n
            IN SubSeq(s, i + Len(sep) + 1, Len(s))

\* s.lstrip('/')
RECURSIVE LStripSlash(_)
LStripSlash(s) ==
    IF s # << >> /\ Head(s) = "/" THEN LStripSlash(Tail(s)) ELSE s

\* _get_resource_subpath, for a non-empty top path
get_resource_subpath(resource_path, top_path) ==
    LStripSlash(PartitionAfter(resource_path, top_path))

\* int(child.size / 10) * 10, or 0 for no size; the sizes of this model are
\* far below 2^53, where the float division is exact enough to floor
RoundedSizeUnrounded(size) == size

RoundedSize(size) == IF size = 0 THEN 0 ELSE (size \div 10) * 10

\* create_structure_fingerprint: the features list
StructureFeatures(cb, directory, children) ==
    LET with_path == SelectSeq(children, LAMBDA c : cb[c].path # << >>)
    IN [ k \in DOMAIN with_path |->
           Str(RoundedSize(cb[with_path[k]].size))
             \o get_resource_subpath(cb[with_path[k]].path, cb[directory].path) ]

\* children = [r for r in directory.walk(codebase) if r.is_file and r.size]
EligibleChildrenAnySize(cb, directory) ==
    SelectSeq(WalkTable[directory][TRUE], LAMBDA r : cb[r].is_file)

EligibleChildren(cb, directory) ==
    SelectSeq(WalkTable[directory][TRUE], LAMBDA r : cb[r].is_file /\ cb[r].size # 0)

\* if len(children) <= 1: return
TooFewChildrenNone(children) == Len(children) < 1

TooFewChildren(children) == Len(children) <= 1

\* the walk of the driver: bottom-up, over the codebase or below `directory`
DriverWalkTopdown(e) ==
    IF e.kind = "codebase" THEN CodebaseWalk(TRUE) ELSE WalkTable[e.top][TRUE]

DriverWalk(e) ==
    IF e.kind = "codebase" THEN CodebaseWalk(FALSE) ELSE WalkTable[e.top][FALSE]

\* the loop of the driver skips this resource:
\* compute_directory_fingerprints skips files,
\* compute_codebase_directory_fingerprints files and the empty path
DriverSkips(e, cb, r) ==
    cb[r].is_file \/ (e.kind = "codebase" /\ cb[r].path = << >>)

Unset == [ content |-> None, structure |-> None ]

\* the next resource of the walk is skipped
DriverStepSkip ==
    /\ dpc = "run"
    /\ todo # << >>
    /\ DriverSkips(entry, codebase, Head(todo))
    /\ todo' = Tail(todo)
    /\ UNCHANGED <<codebase, has_fields, entry, fields, extra_data, saved,
                   processed, hashed, failed_at, dpc>>
    /\ UNCHANGED <<selVars, codecVars>>

\* the next resource is a directory with too few children:
\* _compute_directory_fingerprints returns at once
DriverStepTooFew ==
    /\ dpc = "run"
    /\ todo # << >>
    /\ ~DriverSkips(entry, codebase, Head(todo))
    /\ TooFewChildren(EligibleChildren(codebase, Head(todo)))
    /\ processed' = Append(processed, Head(todo))
    /\ todo' = Tail(todo)
    /\ UNCHANGED <<codebase, has_fields, entry, fields, extra_data, saved,
                   hashed, failed_at, dpc>>
    /\ UNCHANGED <<selVars, codecVars>>

\* _compute_directory_fingerprints past the early return: the feature lists
\* and the two fingerprints of `directory`. The drivers never pass a directory
\* with an empty path (the codebase driver skips it, Resource.walk yields only
\* descendants), so partition always has a non-empty separator.
ComputedFingerprints(cb, directory) ==
    LET children == EligibleChildren(cb, directory)
        content == ContentFeatures(cb, children)
        structure == StructureFeatures(cb, directory, children)
    IN [ features |-> [ content |-> content, structure |-> structure ],
         fps |-> [ content |-> create_directory_fingerprint(content),
                   structure |-> create_directory_fingerprint(structure) ] ]

\* the next resource is a directory that gets its two fingerprints, and
\* directory.save(codebase) returns
DriverStepSaved ==
    /\ dpc = "run"
    /\ todo # << >>
    /\ ~DriverSkips(entry, codebase, Head(todo))
    /\ ~TooFewChildren(EligibleChildren(codebase, Head(todo)))
    /\ LET directory == Head(todo)
           computed == ComputedFingerprints(codebase, directory)
       IN /\ processed' = Append(processed, directory)
          /\ hashed' = [ hashed EXCEPT ![directory] = computed.features ]
          /\ IF has_fields
             THEN /\ fields' = [ fields EXCEPT ![directory] = computed.fps ]
                  /\ UNCHANGED extra_data
             ELSE /\ extra_data' = [ extra_data EXCEPT ![directory] = computed.fps ]
                  /\ UNCHANGED fields
          /\ saved' = Append(saved, directory)
    /\ todo' = Tail(todo)
    /\ UNCHANGED <<codebase, has_fields, entry, failed_at, dpc>>
    /\ UNCHANGED <<selVars, codecVars>>

\* the next resource is a directory that gets its two fingerprints, and
\* directory.save(codebase) raises: nothing catches the exception, it leaves
\* the driver's loop and the driver
DriverStepSaveRaises ==
    /\ dpc = "run"
    /\ todo # << >>
    /\ ~DriverSkips(entry, codebase, Head(todo))
    /\ ~TooFewChildren(EligibleChildren(codebase, Head(todo)))
    /\ LET directory == Head(todo)
           computed == ComputedFingerprints(codebase, directory)
       IN /\ processed' = Append(processed, directory)
          /\ hashed' = [ hashed EXCEPT ![directory] = computed.features ]
          /\ IF has_fields
             THEN /\ fields' = [ fields EXCEPT ![directory] = computed.fps ]
                  /\ UNCHANGED extra_data
             ELSE /\ extra_data' = [ extra_data EXCEPT ![directory] = computed.fps ]
                  /\ UNCHANGED fields
          /\ failed_at' = directory
    /\ dpc' = "failed"
    /\ UNCHANGED <<codebase, has_fields, entry, todo, saved>>
    /\ UNCHANGED <<selVars, codecVars>>

\* the walk is exhausted: the driver returns
DriverReturn ==
    /\ dpc = "run"
    /\ todo = << >>
    /\ dpc' = "done"
    /\ UNCHANGED <<codebase, has_fields, entry, todo, fields, extra_data, saved,
                   processed, hashed, failed_at>>
    /\ UNCHANGED <<selVars, codecVars>>

-----------------------------------------------------------------------------
(* Specifications: one per component, the other components idle. *)

\* select_windows is called on a sequence of windows of one length
SelInit ==
    /\ \E n \in WinLens : windows \in SeqsUpTo(WindowsOfLen(n), MaxWindows)
    /\ pos = 0
    /\ last = None
    /\ window = None
    /\ out = << >>
    /\ outpos = << >>
    /\ spc = "loop"
    /\ inputs_count = 0
    /\ bah128 = << >>
    /\ fpstr = << >>
    /\ sarg = << >>
    /\ split_out = NoCall
    /\ carg = << >>
    /\ chunks_out = NoCall
    /\ cpc = "idle"
    /\ codebase = << >>
    /\ has_fields = FALSE
    /\ entry = [ kind |-> "none", top |-> 0 ]
    /\ todo = << >>
    /\ fields = << >>
    /\ extra_data = << >>
    /\ saved = << >>
    /\ processed = << >>
    /\ hashed = << >>
    /\ failed_at = 0
    /\ dpc = "idle"

SelNext == SelectIter \/ SelectEnd

SpecSelect == SelInit /\ [][SelNext]_vars

\* no codec function has been called yet
CodecInit ==
    /\ inputs_count = 0
    /\ bah128 = << >>
    /\ fpstr = << >>
    /\ sarg = << >>
    /\ split_out = NoCall
    /\ carg = << >>
    /\ chunks_out = NoCall
    /\ cpc = "start"
    /\ windows = << >>
    /\ pos = 0
    /\ last = None
    /\ window = None
    /\ out = << >>
    /\ outpos = << >>
    /\ spc = "idle"
    /\ codebase = << >>
    /\ has_fields = FALSE
    /\ entry = [ kind |-> "none", top |-> 0 ]
    /\ todo = << >>
    /\ fields = << >>
    /\ extra_data = << >>
    /\ saved = << >>
    /\ processed = << >>
    /\ hashed = << >>
    /\ failed_at = 0
    /\ dpc = "idle"

CodecNext ==
    \/ CreateDirectoryFingerprint
    \/ SplitCreated
    \/ SplitGiven
    \/ ChunksOfSplit
    \/ ChunksGiven

SpecCodec == CodecInit /\ [][CodecNext]_vars

\* an entry point is called on a codebase: compute_codebase_directory_fingerprints,
\* or compute_directory_fingerprints on one of its directories
DirInit ==
    /\ \E root_path \in RootPaths, kinds \in [ FileIds -> FileKinds ] :
          codebase = [ r \in ResourceIds |->
                         IF r \in DirIds
                         THEN [ path |-> PathOf(r, root_path), is_file |-> FALSE,
                                size |-> 0, sha1 |-> << >> ]
                         ELSE [ path |-> PathOf(r, root_path), is_file |-> TRUE,
                                size |-> kinds[r].size, sha1 |-> kinds[r].sha1 ] ]
    /\ has_fields \in BOOLEAN
    /\ entry \in { [ kind |-> "codebase", top |-> 1 ] }
                   \cup { [ kind |-> "directory", top |-> d ] : d \in DirIds }
    /\ todo = DriverWalk(entry)
    /\ fields = [ r \in ResourceIds |-> Unset ]
    /\ extra_data = [ r \in ResourceIds |-> Unset ]
    /\ saved = << >>
    /\ processed = << >>
    /\ hashed = [ r \in ResourceIds |-> Unset ]
    /\ failed_at = 0
    /\ dpc = "run"
    /\ windows = << >>
    /\ pos = 0
    /\ last = None
    /\ window = None
    /\ out = << >>
    /\ outpos = << >>
    /\ spc = "idle"
    /\ inputs_count = 0
    /\ bah128 = << >>
    /\ fpstr = << >>
    /\ sarg = << >>
    /\ split_out = NoCall
    /\ carg = << >>
    /\ chunks_out = NoCall
    /\ cpc = "idle"

DirNext ==
    \/ DriverStepSkip
    \/ DriverStepTooFew
    \/ DriverStepSaved
    \/ DriverStepSaveRaises
    \/ DriverReturn

SpecDir == DirInit /\ [][DirNext]_vars

-----------------------------------------------------------------------------
(* Properties of the fingerprint codec *)

\* C2: the fingerprint built from a count n < 2^32 and a 32-hex-character
\* digest d, as _create_directory_fingerprint builds it, is 40 characters
\* long, and split_fingerprint applied to it returns exactly (n, d).
C2_RoundTrip ==
    /\ cpc \in { "encoded", "split", "chunked" } /\ fpstr # << >>
          => Len(fpstr) = 40
    /\ (cpc \in { "split", "chunked" } /\ fpstr # << >>)
          => /\ sarg = fpstr
             /\ split_out = Returned([ indexed_elements_count |-> inputs_count,
                                       bah128 |-> bah128 ])

\* C2 witness: the fingerprint of 4096 elements and a digest of mixed
\* digits has been built and split again.
C2_Witness ==
    /\ cpc = "split"
    /\ inputs_count = 4096
    /\ bah128 = [ i \in 1..32 |-> HexDigits[((7 * i + 3) % 16) + 1] ]
    /\ fpstr = << "0", "0", "0", "0", "1", "0", "0", "0" >> \o bah128
    /\ split_out.raised = "none"
    /\ split_out.value.indexed_elements_count = 4096

\* a string that is not `len` hex digits
Malformed(s, len) == Len(s) # len \/ \E i \in DOMAIN s : ~IsHexChar(s[i])

\* C3 (as claimed): a malformed string (wrong length, or a non-hex character)
\* passed to split_fingerprint (40 characters expected) or to
\* create_halohash_chunks (32 expected) always ends in an error; none makes
\* the call return a result.
C3_MalformedAlwaysRaises ==
    /\ (split_out # NoCall /\ Malformed(sarg, 40)) => split_out.raised # "none"
    /\ (chunks_out # NoCall /\ Malformed(carg, 32)) => chunks_out.raised # "none"

-----------------------------------------------------------------------------
(* Properties of select_windows *)

\* The selection rule, stated on the hashes without min(): the hash of the
\* first element, or the hash of the last element, is below or equal to the
\* hash of every element of the window.
MinAtEnd(w) ==
    \/ \A k \in DOMAIN w : HashLeq(Crc32Of[w[1]], Crc32Of[w[k]])
    \/ \A k \in DOMAIN w : HashLeq(Crc32Of[w[Len(w)]], Crc32Of[w[k]])

\* C1: when select_windows has finished, an empty input has produced an empty
\* output, and for a non-empty input the output contains the first input
\* window (it is the first output) and a window equal to the last input
\* window (the last output), whether or not they satisfy the selection rule.
C1_FirstAndLastInOutput ==
    spc = "done" =>
        IF windows = << >>
        THEN out = << >>
        ELSE /\ windows[1] \in Range(out)
             /\ windows[Len(windows)] \in Range(out)
             /\ out[1] = windows[1] /\ outpos[1] = 1
             /\ out[Len(out)] = windows[Len(windows)]

\* C1 witness: a finished run over three windows whose first and last windows
\* differ and both fail the selection rule, and both are in the output.
C1_Witness ==
    /\ spc = "done"
    /\ Len(windows) = 3
    /\ windows[1] # windows[3]
    /\ ~MinAtEnd(windows[1])
    /\ ~MinAtEnd(windows[3])
    /\ windows[1] \in Range(out)
    /\ windows[3] \in Range(out)

\* C8 (as claimed): for every non-empty input the final window of the input
\* is emitted exactly once, also when an earlier emitted window has the same
\* content as the final window.
C8_FinalWindowEmittedOnce ==
    (spc = "done" /\ windows # << >>) =>
        Cardinality({ i \in DOMAIN outpos : outpos[i] = Len(windows) }) = 1

\* C9: a window that is neither the first nor the last of the input is
\* emitted if and only if the minimum hash of its n-grams is the hash of its
\* first or of its last element; emitted windows are input windows in input
\* order, and the output is never longer than the input.
C9_MiddleWindowsByRule ==
    /\ \A p \in 2..(Len(windows) - 1) :
          p <= pos => ((p \in Range(outpos)) <=> MinAtEnd(windows[p]))
    /\ \A i \in DOMAIN outpos :
          /\ outpos[i] \in 1..pos
          /\ out[i] = windows[outpos[i]]
          /\ i > 1 => outpos[i - 1] < outpos[i]
    /\ Len(out) = Len(outpos)
    /\ Len(out) <= Len(windows)

\* C9 witness: a finished run over three windows in which the middle window
\* fails the rule and is left out, between two emitted windows.
C9_Witness ==
    /\ spc = "done"
    /\ Len(windows) = 3
    /\ ~MinAtEnd(windows[2])
    /\ outpos = <<1, 3>>

-----------------------------------------------------------------------------
(* Properties of the directory fingerprint engine *)

\* x lies below d in the tree, at any depth
RECURSIVE IsBelow(_, _)
IsBelow(x, d) ==
    /\ ParentOf(x) # 0
    /\ (ParentOf(x) = d \/ IsBelow(ParentOf(x), d))

\* the descendant regular files of d with a non-zero size
NonEmptyFilesBelow(d) ==
    { x \in FileIds : IsBelow(x, d) /\ codebase[x].size > 0 }

\* the fingerprints of d, in the store the schema selects
FingerprintsOf(d) == IF has_fields THEN fields[d] ELSE extra_data[d]

\* the count prefix of a fingerprint, decoded
CountPrefix(fp) == split_fingerprint(fp).value.indexed_elements_count

\* C4: a directory with 0 or 1 descendant regular files of non-zero size is
\* not fingerprinted: neither of its dedicated fields and neither of its
\* extra_data keys is ever set, and save is never invoked for it.
C4_SkipRule ==
    \A d \in DirIds :
        Cardinality(NonEmptyFilesBelow(d)) <= 1 =>
            /\ fields[d] = Unset
            /\ extra_data[d] = Unset
            /\ d \notin Range(saved)

\* C4 witness: the driver has returned after processing a directory with
\* exactly one non-empty file, left unset, and one it fingerprinted.
C4_Witness ==
    /\ dpc = "done"
    /\ \E d \in Range(processed) :
          /\ Cardinality(NonEmptyFilesBelow(d)) = 1
          /\ FingerprintsOf(d) = Unset
    /\ \E d \in Range(processed) : FingerprintsOf(d) # Unset

\* C5: directories are processed bottom-up: when a directory is processed,
\* every directory below it has been processed before; no file is processed
\* as a directory; the whole-codebase entry point skips the empty-path root.
C5_BottomUp ==
    \A i \in DOMAIN processed :
        /\ ~codebase[processed[i]].is_file
        /\ entry.kind = "codebase" => codebase[processed[i]].path # << >>
        /\ \A d \in DirIds :
              IsBelow(d, processed[i]) => \E j \in 1..(i - 1) : processed[j] = d

\* C5 witness: the whole-codebase run over a named root has returned, having
\* processed a/b, then a, then c, then the root, and fingerprinted the root.
C5_Witness ==
    /\ dpc = "done"
    /\ entry.kind = "codebase"
    /\ processed = << 3, 2, 4, 1 >>
    /\ FingerprintsOf(3) # Unset
    /\ FingerprintsOf(1) # Unset

\* C6 (as claimed): when fingerprinting one directory fails, every eligible
\* directory of the run that is neither that directory, nor above it, nor
\* below it, is still fingerprinted and saved by the same call.
C6_FailureDoesNotAbort ==
    dpc = "failed" =>
        \A d \in DirIds :
            ( /\ d \in Range(DriverWalk(entry))
              /\ ~DriverSkips(entry, codebase, d)
              /\ Cardinality(NonEmptyFilesBelow(d)) >= 2
              /\ d # failed_at
              /\ ~IsBelow(d, failed_at)
              /\ ~IsBelow(failed_at, d) )
            => (d \in Range(saved) /\ FingerprintsOf(d) # Unset)

\* C7: the content fingerprint of a fingerprinted directory is 40 characters
\* long and its first 8 hex digits decode to the number of descendant regular
\* files with a non-zero size and a non-empty sha1.
C7_ContentCount ==
    \A d \in DirIds :
        FingerprintsOf(d).content # None =>
            /\ Len(FingerprintsOf(d).content) = 40
            /\ CountPrefix(FingerprintsOf(d).content) =
                 Cardinality({ x \in NonEmptyFilesBelow(d) : codebase[x].sha1 # << >> })

\* C7 witness: a fingerprinted directory with three non-empty files below it,
\* one of them without sha1, and an empty file with a sha1: the count is 2.
C7_Witness ==
    \E d \in DirIds :
        /\ FingerprintsOf(d).content # None
        /\ Cardinality(NonEmptyFilesBelow(d)) = 3
        /\ \E x \in FileIds :
              IsBelow(x, d) /\ codebase[x].size = 0 /\ codebase[x].sha1 # << >>
        /\ SubSeq(FingerprintsOf(d).content, 1, 8) =
              << "0", "0", "0", "0", "0", "0", "0", "2" >>

\* the path of x relative to d, from the names of the tree
RECURSIVE RelPath(_, _)
RelPath(x, d) ==
    IF ParentOf(x) = d THEN << NameOf(x) >>
    ELSE RelPath(ParentOf(x), d) \o << "/", NameOf(x) >>

\* C10 (as claimed): the structure fingerprint of a fingerprinted directory D
\* has one feature per descendant resource of D (file or directory) with a
\* non-empty path and a non-empty subpath, and its count prefix is the number
\* of such resources.
C10_OneFeaturePerDescendant ==
    \A d \in DirIds :
        FingerprintsOf(d).structure # None =>
            LET resources ==
                  { x \in ResourceIds :
                      /\ IsBelow(x, d)
                      /\ codebase[x].path # << >>
                      /\ get_resource_subpath(codebase[x].path, codebase[d].path) # << >> }
            IN /\ Len(hashed[d].structure) = Cardinality(resources)
               /\ CountPrefix(FingerprintsOf(d).structure) = Cardinality(resources)

\* C10 (amended): the structure fingerprint of a fingerprinted directory D has
\* exactly one feature per descendant regular file of D with a non-zero size,
\* the decimal rounded size ((size div 10) * 10) followed by the path relative
\* to D, and its count prefix is the number of such files.
C10_OneFeaturePerNonEmptyFile ==
    \A d \in DirIds :
        FingerprintsOf(d).structure # None =>
            /\ Len(hashed[d].structure) = Cardinality(NonEmptyFilesBelow(d))
            /\ \A x \in NonEmptyFilesBelow(d) :
                  (Str((codebase[x].size \div 10) * 10) \o RelPath(x, d))
                      \in Range(hashed[d].structure)
            /\ Len(FingerprintsOf(d).structure) = 40
            /\ CountPrefix(FingerprintsOf(d).structure) =
                 Cardinality(NonEmptyFilesBelow(d))

\* C10 witness: directory a, with the subdirectory a/b holding a file of size
\* 5 and one of size 27, has the structure features "0b/f" and "20b/g".
C10_Witness ==
    /\ FingerprintsOf(2).structure # None
    /\ hashed[2].structure = << << "0", "b", "/", "f" >>,
                                << "2", "0", "b", "/", "g" >> >>
    /\ SubSeq(FingerprintsOf(2).structure, 1, 8) =
          << "0", "0", "0", "0", "0", "0", "0", "2" >>

====
